---------------------------- MODULE Spec2Model ----------------------------
(***************************************************************************)
(* Model of the 2048 zkApp of src/src/game2048.ts: the Board class (bit    *)
(* codec, terminal detector, tile placement, the four moves) and the       *)
(* Game2048 contract (startGame, addTile, moveUp/Down/Left/Right, endGame  *)
(* behind assertSignature).                                                *)
(*                                                                         *)
(* Four specifications share the module.                                   *)
(*   Spec          the contract as a state machine over its three          *)
(*                 persisted values, one action per @method call.          *)
(*   EngineSpec    the Board class as pure functions: Init draws a decoded *)
(*                 game state or a packed field from bounded sets, each    *)
(*                 action applies one Board operation to it.               *)
(*   ScenarioSpec  the command lists of game2048.test.ts, sent in order.   *)
(*   RaceSpec      transactions proved against a snapshot and sent later.  *)
(*                                                                         *)
(* Representation.  A Field that holds a packed board is modelled by the   *)
(* list of its bits as Field.toBits / Field.fromBits order them (least     *)
(* significant bit first), because the packed integer is 112 bits wide.    *)
(* Arrays of the source are TLA+ sequences: element k of a source array is  *)
(* element k+1 here.  Row and column numbers keep the source's 0-based     *)
(* values; At and ArrayOf do the shift.                                    *)
(***************************************************************************)
EXTENDS Integers, Sequences, FiniteSets, TLC

BOARD_ROWS == 4
BOARD_COLS == 4
NUM_BITS == 5

\* BOARD_ROWS * BOARD_COLS * NUM_BITS + 33, the width the constructor asks of toBits
DECODE_BITS == BOARD_ROWS * BOARD_COLS * NUM_BITS + 33

\* upper limit (exclusive) of the loop of pow2
POW2_LIMIT == 18

Rows == 0 .. (BOARD_ROWS - 1)
Cols == 0 .. (BOARD_COLS - 1)

\* the array [F(0), ..., F(n-1)]
ArrayOf(n, F(_)) == SubSeq([k \in 1 .. n |-> F(k - 1)], 1, n)

\* this.board[i][j]
At(b, i, j) == b.board[i + 1][j + 1]

-----------------------------------------------------------------------------
(* Bit codec                                                               *)

\* Field.fromBits: the bit list is the field element, least significant bit
\* first; missing high bits are zero.
FromBits(bits) == bits \o [k \in 1 .. (DECODE_BITS - Len(bits)) |-> FALSE]

\* C15 mutant: the bit list starting one bit too high, so that every cell is
\* read one position off
ToBitsOffByOne(field, n) == SubSeq(field \o << FALSE >>, 2, n + 1)

\* Field.toBits(n): the n low bits, least significant first.
ToBits(field, n) == SubSeq(field, 1, n)

\* Field(0)
FieldZero == [k \in 1 .. DECODE_BITS |-> FALSE]

RECURSIVE CombineFrom(_, _, _)
CombineFrom(bits, bitCount, i) ==
  IF i >= bitCount THEN 0
  ELSE (IF bits[(bitCount - i - 1) + 1] THEN 2^i ELSE 0)
         + CombineFrom(bits, bitCount, i + 1)

\* Board.combineBits: bits[bitCount - i - 1] carries weight 1 << i
combineBits(bits, bitCount) == CombineFrom(bits, bitCount, 0)

RECURSIVE NumberToBitsFrom(_, _)
NumberToBitsFrom(num, i) ==
  IF i < 0 THEN << >>
  ELSE << num >= 2^i >> \o NumberToBitsFrom(num % (2^i), i - 1)

RECURSIVE NumberToBitsStrictFrom(_, _)
NumberToBitsStrictFrom(num, i) ==
  IF i < 0 THEN << >>
  ELSE << num > 2^i >> \o NumberToBitsStrictFrom(num % (2^i), i - 1)

\* C8 mutant: numberToBits comparing with > where the source compares with >=
numberToBitsStrict(num, bitCount) == NumberToBitsStrictFrom(num, bitCount - 1)

\* C21 mutant: numberToBits pushing the bit of weight 1 first
numberToBitsLowFirst(num, bitCount) ==
  [k \in 1 .. bitCount |-> (num \div 2^(k - 1)) % 2 = 1]

\* Board.numberToBits: for i = bitCount-1 .. 0 push num >= 1<<i, num = num mod 1<<i
numberToBits(num, bitCount) == NumberToBitsFrom(num, bitCount - 1)

RECURSIVE Pow2From(_, _)
Pow2From(num, i) ==
  IF i >= POW2_LIMIT THEN 0
  ELSE (IF i = num THEN 2^i ELSE 0) + Pow2From(num, i + 1)

\* C10 mutant: pow2 returning 1 << (num - 1)
pow2Half(num) == Pow2From(num, 1) \div 2

\* Board.pow2: sum over i = 1 .. 17 of (i = num ? 1 << i : 0)
pow2(num) == Pow2From(num, 1)

\* Board constructor: decode a packed field into board, ended and score
BoardOf(serializedBoard) ==
  LET bits == ToBits(serializedBoard, DECODE_BITS)
      cell(i, j) ==
        LET pos == i * BOARD_COLS + j
        IN  combineBits(SubSeq(bits, pos * NUM_BITS + 1, pos * NUM_BITS + NUM_BITS),
                        NUM_BITS)
      row(i) == LET rowCell(j) == cell(i, j) IN ArrayOf(BOARD_COLS, rowCell)
  IN  [board |-> ArrayOf(BOARD_ROWS, row),
       ended |-> bits[BOARD_ROWS * BOARD_COLS * NUM_BITS + 1],
       score |-> combineBits(SubSeq(bits, BOARD_ROWS * BOARD_COLS * NUM_BITS + 2,
                                    DECODE_BITS), 31)]

RECURSIVE CellBitsFrom(_, _)
CellBitsFrom(b, pos) ==
  IF pos >= BOARD_ROWS * BOARD_COLS THEN << >>
  ELSE numberToBits(At(b, pos \div BOARD_COLS, pos % BOARD_COLS), NUM_BITS)
         \o CellBitsFrom(b, pos + 1)

\* C22 mutant: serialize writing the score with the default bit count of
\* numberToBits, NUM_BITS, where the source passes 31
serializeDefaultBits(b) ==
  FromBits(CellBitsFrom(b, 0) \o << b.ended >> \o numberToBits(b.score, NUM_BITS))

\* Board.serialize: 16 cells of 5 bits, the ended bit, 31 bits of score
serialize(b) ==
  FromBits(CellBitsFrom(b, 0) \o << b.ended >> \o numberToBits(b.score, 31))

-----------------------------------------------------------------------------
(* Terminal detector and tile placement                                    *)

\* C13 mutant: hasNextMove without its third loop (adjacent cols)
hasNextMoveNoCols(b) ==
  \/ \E i \in Rows, j \in Cols : At(b, i, j) = 0
  \/ \E j \in Cols, i \in 0 .. (BOARD_ROWS - 2) : At(b, i, j) = At(b, i + 1, j)

\* C28 mutant: hasNextMove without its first loop (empty cells)
hasNextMoveNoEmpty(b) ==
  \/ \E j \in Cols, i \in 0 .. (BOARD_ROWS - 2) : At(b, i, j) = At(b, i + 1, j)
  \/ \E i \in Rows, j \in 0 .. (BOARD_COLS - 2) : At(b, i, j) = At(b, i, j + 1)

\* Board.hasNextMove
hasNextMove(b) ==
  \/ \E i \in Rows, j \in Cols : At(b, i, j) = 0
  \/ \E j \in Cols, i \in 0 .. (BOARD_ROWS - 2) : At(b, i, j) = At(b, i + 1, j)
  \/ \E i \in Rows, j \in 0 .. (BOARD_COLS - 2) : At(b, i, j) = At(b, i, j + 1)

\* C7 mutant: Board.newTile without the assertion on the targeted cell
newTileAssertsNumOnly(b, r, c, num) == num > 0

\* The assertions of Board.newTile: num > 0 and, for the targeted cell, cell = 0
newTileAsserts(b, r, c, num) ==
  /\ num > 0
  /\ \A i \in Rows, j \in Cols : (r = i /\ c = j) => At(b, i, j) = 0

\* C11 mutant: newTile leaving a game state whose score starts again at zero
newTileFresh(b, r, c, num) ==
  LET cell(i, j) == IF r = i /\ c = j THEN num ELSE At(b, i, j)
      row(i) == LET rowCell(j) == cell(i, j) IN ArrayOf(BOARD_COLS, rowCell)
      placed == [board |-> ArrayOf(BOARD_ROWS, row), ended |-> b.ended, score |-> 0]
  IN  [placed EXCEPT !.ended = ~hasNextMove(placed)]

\* C18 mutant: newTile selecting the cell by its row only (toUpdate without
\* the comparison of c)
newTileWholeRow(b, r, c, num) ==
  LET cell(i, j) == IF r = i THEN num ELSE At(b, i, j)
      row(i) == LET rowCell(j) == cell(i, j) IN ArrayOf(BOARD_COLS, rowCell)
      placed == [b EXCEPT !.board = ArrayOf(BOARD_ROWS, row)]
  IN  [placed EXCEPT !.ended = ~hasNextMove(placed)]

\* C31 mutant: newTile without its last statement, ended left as decoded
newTileKeepsEnded(b, r, c, num) ==
  LET cell(i, j) == IF r = i /\ c = j THEN num ELSE At(b, i, j)
      row(i) == LET rowCell(j) == cell(i, j) IN ArrayOf(BOARD_COLS, rowCell)
  IN  [b EXCEPT !.board = ArrayOf(BOARD_ROWS, row)]

\* Board.newTile: the board it leaves (every cell selected, then ended recomputed)
newTile(b, r, c, num) ==
  LET cell(i, j) == IF r = i /\ c = j THEN num ELSE At(b, i, j)
      row(i) == LET rowCell(j) == cell(i, j) IN ArrayOf(BOARD_COLS, rowCell)
      placed == [b EXCEPT !.board = ArrayOf(BOARD_ROWS, row)]
  IN  [placed EXCEPT !.ended = ~hasNextMove(placed)]

-----------------------------------------------------------------------------
(* Move engine                                                             *)

\* C17 mutant: moveTile adding to the score whenever curr = adj and the loop
\* is not broken, without the test currEmpty.not()
moveTileScoresEmpty(b, c, a, breakLoop) ==
  LET curr == At(b, c[1], c[2])
      adj == At(b, a[1], a[2])
      currEmpty == (curr = 0)
      adjEmpty == (adj = 0)
      eq == (curr = adj)
      score1 == b.score + (IF eq /\ ~breakLoop THEN pow2(adj + 1) ELSE 0)
      adj1 == IF currEmpty \/ breakLoop THEN adj
              ELSE IF adjEmpty THEN curr
              ELSE IF eq THEN adj + 1 ELSE adj
      board1 == [b.board EXCEPT ![a[1] + 1][a[2] + 1] = adj1]
      curr1 == IF currEmpty \/ breakLoop THEN board1[c[1] + 1][c[2] + 1]
               ELSE IF adjEmpty \/ eq THEN 0 ELSE board1[c[1] + 1][c[2] + 1]
      board2 == [board1 EXCEPT ![c[1] + 1][c[2] + 1] = curr1]
  IN  [b |-> [b EXCEPT !.board = board2, !.score = score1],
       ret |-> ~adjEmpty]

\* C24 mutant: moveTile testing breakLoop for the score only, so that a
\* suppressed step still moves or merges the tile
moveTileIgnoresFlag(b, c, a, breakLoop) ==
  LET curr == At(b, c[1], c[2])
      adj == At(b, a[1], a[2])
      currEmpty == (curr = 0)
      adjEmpty == (adj = 0)
      eq == (curr = adj)
      score1 == b.score + (IF eq /\ ~currEmpty /\ ~breakLoop
                           THEN pow2(adj + 1) ELSE 0)
      adj1 == IF currEmpty THEN adj
              ELSE IF adjEmpty THEN curr
              ELSE IF eq THEN adj + 1 ELSE adj
      board1 == [b.board EXCEPT ![a[1] + 1][a[2] + 1] = adj1]
      curr1 == IF currEmpty THEN board1[c[1] + 1][c[2] + 1]
               ELSE IF adjEmpty \/ eq THEN 0 ELSE board1[c[1] + 1][c[2] + 1]
      board2 == [board1 EXCEPT ![c[1] + 1][c[2] + 1] = curr1]
  IN  [b |-> [b EXCEPT !.board = board2, !.score = score1],
       ret |-> ~adjEmpty]

\* C26 mutant: moveTile returning whether the neighbour is non-empty once
\* the step has been applied
moveTileReturnsAfter(b, c, a, breakLoop) ==
  LET curr == At(b, c[1], c[2])
      adj == At(b, a[1], a[2])
      currEmpty == (curr = 0)
      adjEmpty == (adj = 0)
      eq == (curr = adj)
      score1 == b.score + (IF eq /\ ~currEmpty /\ ~breakLoop
                           THEN pow2(adj + 1) ELSE 0)
      adj1 == IF currEmpty \/ breakLoop THEN adj
              ELSE IF adjEmpty THEN curr
              ELSE IF eq THEN adj + 1 ELSE adj
      board1 == [b.board EXCEPT ![a[1] + 1][a[2] + 1] = adj1]
      curr1 == IF currEmpty \/ breakLoop THEN board1[c[1] + 1][c[2] + 1]
               ELSE IF adjEmpty \/ eq THEN 0 ELSE board1[c[1] + 1][c[2] + 1]
      board2 == [board1 EXCEPT ![c[1] + 1][c[2] + 1] = curr1]
  IN  [b |-> [b EXCEPT !.board = board2, !.score = score1],
       ret |-> adj1 # 0]

\* C30 mutant: moveTile clearing the current cell after a slide only, so
\* that a merge leaves the merged tile behind
moveTileKeepsMerged(b, c, a, breakLoop) ==
  LET curr == At(b, c[1], c[2])
      adj == At(b, a[1], a[2])
      currEmpty == (curr = 0)
      adjEmpty == (adj = 0)
      eq == (curr = adj)
      score1 == b.score + (IF eq /\ ~currEmpty /\ ~breakLoop
                           THEN pow2(adj + 1) ELSE 0)
      adj1 == IF currEmpty \/ breakLoop THEN adj
              ELSE IF adjEmpty THEN curr
              ELSE IF eq THEN adj + 1 ELSE adj
      board1 == [b.board EXCEPT ![a[1] + 1][a[2] + 1] = adj1]
      curr1 == IF currEmpty \/ breakLoop THEN board1[c[1] + 1][c[2] + 1]
               ELSE IF adjEmpty THEN 0 ELSE board1[c[1] + 1][c[2] + 1]
      board2 == [board1 EXCEPT ![c[1] + 1][c[2] + 1] = curr1]
  IN  [b |-> [b EXCEPT !.board = board2, !.score = score1],
       ret |-> ~adjEmpty]

\* Board.moveTile: one step on the pair (c, a); returns the new board state
\* and the boolean the source returns (adjEmpty.not(), read before the update)
moveTile(b, c, a, breakLoop) ==
  LET curr == At(b, c[1], c[2])
      adj == At(b, a[1], a[2])
      currEmpty == (curr = 0)
      adjEmpty == (adj = 0)
      eq == (curr = adj)
      score1 == b.score + (IF eq /\ ~currEmpty /\ ~breakLoop
                           THEN pow2(adj + 1) ELSE 0)
      adj1 == IF currEmpty \/ breakLoop THEN adj
              ELSE IF adjEmpty THEN curr
              ELSE IF eq THEN adj + 1 ELSE adj
      board1 == [b.board EXCEPT ![a[1] + 1][a[2] + 1] = adj1]
      curr1 == IF currEmpty \/ breakLoop THEN board1[c[1] + 1][c[2] + 1]
               ELSE IF adjEmpty \/ eq THEN 0 ELSE board1[c[1] + 1][c[2] + 1]
      board2 == [board1 EXCEPT ![c[1] + 1][c[2] + 1] = curr1]
  IN  [b |-> [b EXCEPT !.board = board2, !.score = score1],
       ret |-> ~adjEmpty]

\* The innermost loop of a move: moveTile over the listed pairs, threading
\* breakLoop from each call into the next.  (The loops are sequential: the
\* tests r.ret \in BOOLEAN and b1.ended \in BOOLEAN always hold and only
\* make each step complete before the next one starts.)
RECURSIVE InnerLoop(_, _, _)
InnerLoop(b, pairs, breakLoop) ==
  IF pairs = << >> THEN b
  ELSE LET r == moveTile(b, Head(pairs)[1], Head(pairs)[2], breakLoop)
       IN  IF r.ret \in BOOLEAN THEN InnerLoop(r.b, Tail(pairs), r.ret) ELSE b

\* The two outer loops of a move: breakLoop is false when each inner loop starts
RECURSIVE OuterLoops(_, _)
OuterLoops(b, passes) ==
  IF passes = << >> THEN b
  ELSE LET b1 == InnerLoop(b, Head(passes), FALSE)
       IN  IF b1.ended \in BOOLEAN THEN OuterLoops(b1, Tail(passes)) ELSE b

\* loop nests of the four directions, as lists of inner loops of (c, a) pairs
\* C19 mutant: moveUp without its innermost loop, each tile moving one step
UpPassesOneStep ==
  [n \in 1 .. BOARD_COLS * (BOARD_ROWS - 1) |->
     LET j == (n - 1) \div (BOARD_ROWS - 1)
         i == 1 + ((n - 1) % (BOARD_ROWS - 1))
     IN  << << <<i, j>>, <<i - 1, j>> >> >>]

UpPasses ==
  [n \in 1 .. BOARD_COLS * (BOARD_ROWS - 1) |->
     LET j == (n - 1) \div (BOARD_ROWS - 1)
         i == 1 + ((n - 1) % (BOARD_ROWS - 1))
     IN  [k \in 1 .. i |-> LET m == i - k + 1 IN << <<m, j>>, <<m - 1, j>> >>]]

\* C16 mutant: moveDown walking its rows upwards from 0, as moveUp walks them
DownPassesAscending ==
  [n \in 1 .. BOARD_COLS * (BOARD_ROWS - 1) |->
     LET j == (n - 1) \div (BOARD_ROWS - 1)
         i == (n - 1) % (BOARD_ROWS - 1)
     IN  [k \in 1 .. (BOARD_ROWS - 1 - i) |->
            LET m == i + k - 1 IN << <<m, j>>, <<m + 1, j>> >>]]

DownPasses ==
  [n \in 1 .. BOARD_COLS * (BOARD_ROWS - 1) |->
     LET j == (n - 1) \div (BOARD_ROWS - 1)
         i == (BOARD_ROWS - 2) - ((n - 1) % (BOARD_ROWS - 1))
     IN  [k \in 1 .. (BOARD_ROWS - 1 - i) |->
            LET m == i + k - 1 IN << <<m, j>>, <<m + 1, j>> >>]]

\* C25 mutant: moveLeft without its innermost loop, each tile moving one step
LeftPassesOneStep ==
  [n \in 1 .. BOARD_ROWS * (BOARD_COLS - 1) |->
     LET i == (n - 1) \div (BOARD_COLS - 1)
         j == 1 + ((n - 1) % (BOARD_COLS - 1))
     IN  << << <<i, j>>, <<i, j - 1>> >> >>]

LeftPasses ==
  [n \in 1 .. BOARD_ROWS * (BOARD_COLS - 1) |->
     LET i == (n - 1) \div (BOARD_COLS - 1)
         j == 1 + ((n - 1) % (BOARD_COLS - 1))
     IN  [k \in 1 .. j |-> LET m == j - k + 1 IN << <<i, m>>, <<i, m - 1>> >>]]

RightPasses ==
  [n \in 1 .. BOARD_ROWS * (BOARD_COLS - 1) |->
     LET i == (n - 1) \div (BOARD_COLS - 1)
         j == (BOARD_COLS - 2) - ((n - 1) % (BOARD_COLS - 1))
     IN  [k \in 1 .. (BOARD_COLS - 1 - j) |->
            LET m == j + k - 1 IN << <<i, m>>, <<i, m + 1>> >>]]

\* the tail of every move: this.ended = this.hasNextMove().not()
SetEnded(b) == [b EXCEPT !.ended = ~hasNextMove(b)]

moveUp(b) == SetEnded(OuterLoops(b, UpPasses))
moveDown(b) == SetEnded(OuterLoops(b, DownPasses))
moveLeft(b) == SetEnded(OuterLoops(b, LeftPasses))
moveRight(b) == SetEnded(OuterLoops(b, RightPasses))

-----------------------------------------------------------------------------
(* Game2048 contract                                                       *)

\* public keys: two key pairs and PublicKey.empty()
P1 == "P1"
P2 == "P2"
EmptyKey == "empty"
Keys == {P1, P2}

\* A Signature is modelled by what it was created from: the key pair that
\* signed and the list of fields signed (Signature.create(key, [tag, value])).
\* NoSignature stands for the absent argument of startGame.
Sig(signer, tag, value) == [signer |-> signer, tag |-> tag, value |-> value]
NoSignature == Sig(EmptyKey, 0, 0)

\* C3 mutant: the verification binds the signer and the action tag but not the value
VerifyAnyValue(signature, pubkey, action, value) ==
  /\ signature.signer = pubkey
  /\ signature.tag = action

\* signature.verify(pubkey, [action, value])
Verify(signature, pubkey, action, value) ==
  /\ signature.signer = pubkey
  /\ signature.tag = action
  /\ signature.value = value

\* The account state after deploy(): init() sets gameDone and player, the
\* board field keeps the zero every fresh account holds.
Deployed == [board |-> FieldZero, gameDone |-> TRUE, player |-> EmptyKey]

(* A method call builds an account update from the state S it observes:    *)
(*   ok            every assertion of the circuit passed; a failed         *)
(*                 assertion throws, and no write of the method exists     *)
(*   reqGameDone   the value gameDone is required to have                  *)
(*   pinPlayer, pinBoard   whether player / board are required to equal    *)
(*                 the observed seen.player / seen.board                   *)
(*   post          the three persisted values once the update is applied   *)

\* a method whose assertion failed
Thrown(S) ==
  [ok |-> FALSE, reqGameDone |-> FALSE, pinPlayer |-> FALSE, pinBoard |-> FALSE,
   seen |-> S, post |-> S]

\* C4 mutant: startGame without the reset of the board
startGameKeepBoard(S, p) ==
  [ok |-> TRUE, reqGameDone |-> TRUE, pinPlayer |-> FALSE, pinBoard |-> FALSE,
   seen |-> S,
   post |-> [board |-> S.board, gameDone |-> FALSE, player |-> p]]

\* Game2048.startGame
startGame(S, p) ==
  [ok |-> TRUE, reqGameDone |-> TRUE, pinPlayer |-> FALSE, pinBoard |-> FALSE,
   seen |-> S,
   post |-> [board |-> FieldZero, gameDone |-> FALSE, player |-> p]]

\* C2 mutant: assertSignature without the comparison with the registered player
assertSignatureAnyKey(S, pubkey, signature, action, value) ==
  Verify(signature, pubkey, action, value)

\* C32 mutant: the signature has to cover the value plus the score of the
\* board read, so that it is bound to the state it was made for
assertSignatureBoardBound(S, pubkey, signature, action, value) ==
  /\ Verify(signature, pubkey, action, value + BoardOf(S.board).score)
  /\ pubkey = S.player

\* Game2048.assertSignature, steps 1 and 2: the assertions on the caller
assertSignature(S, pubkey, signature, action, value) ==
  /\ Verify(signature, pubkey, action, value)
  /\ pubkey = S.player

\* Game2048.assertSignature, step 3: the board it returns
boardOfState(S) == BoardOf(S.board)

\* C12 mutant: setGameDone writing won, not won.not()
setGameDoneWon(b) == hasNextMove(b)

\* Game2048.setGameDone: the value written to gameDone
setGameDone(b) == ~hasNextMove(b)

\* C1 mutant: assertSignature without the precondition on gameDone
GatedAnyPhase(S, ok, newBoard, newGameDone) ==
  IF ok
  THEN [ok |-> TRUE, reqGameDone |-> S.gameDone, pinPlayer |-> TRUE, pinBoard |-> TRUE,
        seen |-> S,
        post |-> [board |-> newBoard, gameDone |-> newGameDone, player |-> S.player]]
  ELSE Thrown(S)

\* C14 mutant: assertSignature without this.board.requireEquals(this.board.get())
GatedBoardUnpinned(S, ok, newBoard, newGameDone) ==
  IF ok
  THEN [ok |-> TRUE, reqGameDone |-> FALSE, pinPlayer |-> TRUE, pinBoard |-> FALSE,
        seen |-> S,
        post |-> [board |-> newBoard, gameDone |-> newGameDone, player |-> S.player]]
  ELSE Thrown(S)

\* the account update of a method that went through assertSignature:
\* gameDone required false, player and board pinned to the values read
Gated(S, ok, newBoard, newGameDone) ==
  IF ok
  THEN [ok |-> TRUE, reqGameDone |-> FALSE, pinPlayer |-> TRUE, pinBoard |-> TRUE,
        seen |-> S,
        post |-> [board |-> newBoard, gameDone |-> newGameDone, player |-> S.player]]
  ELSE Thrown(S)

\* Game2048.addTile
addTile(S, pubkey, signature, r, c) ==
  LET b == newTile(boardOfState(S), r, c, 1)
  IN  Gated(S,
            /\ assertSignature(S, pubkey, signature, 2, r * BOARD_COLS + c)
            /\ newTileAsserts(boardOfState(S), r, c, 1),
            serialize(b), setGameDone(b))

\* Game2048.moveUp
moveUpTx(S, pubkey, signature) ==
  LET b == moveUp(boardOfState(S))
  IN  Gated(S, assertSignature(S, pubkey, signature, 1, 0), serialize(b), setGameDone(b))

\* Game2048.moveDown
moveDownTx(S, pubkey, signature) ==
  LET b == moveDown(boardOfState(S))
  IN  Gated(S, assertSignature(S, pubkey, signature, 1, 1), serialize(b), setGameDone(b))

\* Game2048.moveLeft
moveLeftTx(S, pubkey, signature) ==
  LET b == moveLeft(boardOfState(S))
  IN  Gated(S, assertSignature(S, pubkey, signature, 1, 2), serialize(b), setGameDone(b))

\* Game2048.moveRight
moveRightTx(S, pubkey, signature) ==
  LET b == moveRight(boardOfState(S))
  IN  Gated(S, assertSignature(S, pubkey, signature, 1, 3), serialize(b), setGameDone(b))

\* C5 mutant: endGame going through setGameDone as the other methods do
endGameIfStuck(S, pubkey, signature) ==
  Gated(S, assertSignature(S, pubkey, signature, 3, 0), S.board,
        setGameDone(boardOfState(S)))

\* C23 mutant: endGame also writing the board, with its ended flag set
endGameMarksBoard(S, pubkey, signature) ==
  Gated(S, assertSignature(S, pubkey, signature, 3, 0),
        serialize([boardOfState(S) EXCEPT !.ended = TRUE]), TRUE)

\* Game2048.endGame
endGame(S, pubkey, signature) ==
  Gated(S, assertSignature(S, pubkey, signature, 3, 0), S.board, TRUE)

\* Whether the ledger accepts an account update against the current state:
\* the circuit's assertions passed and every precondition matches.
Accepts(cur, tx) ==
  /\ tx.ok
  /\ cur.gameDone = tx.reqGameDone
  /\ tx.pinPlayer => cur.player = tx.seen.player
  /\ tx.pinBoard => cur.board = tx.seen.board

\* C6 mutant: the writes of an account update are applied whether or not
\* its preconditions match
CommitWrites(cur, tx) == tx.post

\* Sending the transaction: all writes are applied, or none is.
Commit(cur, tx) == IF Accepts(cur, tx) THEN tx.post ELSE cur

-----------------------------------------------------------------------------
(* Specification Spec: the contract driven by method calls                 *)

VARIABLES
  board,      \* @state(Field) board, as its bit list
  gameDone,   \* @state(Bool) gameDone
  player,     \* @state(PublicKey) player
  last,       \* the latest call: method, arguments, state it met, outcome
  calls,      \* number of calls sent since the initial state
  gs,         \* EngineSpec: the game state a Board operation is applied to
  op,         \* EngineSpec: the operation applied, "none" before it
  packed,     \* EngineSpec: the field produced by serialize
  res,        \* EngineSpec: the game state the operation produced
  has,        \* EngineSpec: the Bool returned by hasNextMove or moveTile
  step,       \* EngineSpec: the arguments c, a and breakLoop of moveTile
  prepared,   \* RaceSpec: transactions proved against a snapshot, not yet sent
  commands    \* ScenarioSpec: the commands of the test case being run

vars == << board, gameDone, player, last, calls, gs, op, packed, res, has,
           step, prepared, commands >>

\* calls explored after each initial state
MaxCalls == 1

\* r and c of addTile range over 0 .. MaxCoord: the cells and one value off the grid
MaxCoord == 4

Cur == [board |-> board, gameDone |-> gameDone, player |-> player]

Moves == {"moveUp", "moveDown", "moveLeft", "moveRight"}

\* the @method invoked by a call c = [op, pubkey, signature, r, c] on observed state S
TxOf(S, c) ==
  CASE c.op = "startGame" -> startGame(S, c.pubkey)
    [] c.op = "addTile"   -> addTile(S, c.pubkey, c.signature, c.r, c.c)
    [] c.op = "moveUp"    -> moveUpTx(S, c.pubkey, c.signature)
    [] c.op = "moveDown"  -> moveDownTx(S, c.pubkey, c.signature)
    [] c.op = "moveLeft"  -> moveLeftTx(S, c.pubkey, c.signature)
    [] c.op = "moveRight" -> moveRightTx(S, c.pubkey, c.signature)
    [] c.op = "endGame"   -> endGame(S, c.pubkey, c.signature)

CallOf(o, pubkey, signature, r, c) ==
  [op |-> o, pubkey |-> pubkey, signature |-> signature, r |-> r, c |-> c]

\* the (actionTag, value) pair each method passes to assertSignature
DirValue(o) ==
  CASE o = "moveUp" -> 0 [] o = "moveDown" -> 1 [] o = "moveLeft" -> 2
    [] o = "moveRight" -> 3

\* The calls the drivers make (run.ts, game2048.test.ts): the player signs
\* exactly the pair of the method called.
Place(k, r, c) == CallOf("addTile", k, Sig(k, 2, r * 4 + c), r, c)
Move(k, o) == CallOf(o, k, Sig(k, 1, DirValue(o)), 0, 0)
End(k) == CallOf("endGame", k, Sig(k, 3, 0), 0, 0)
Start(k) == CallOf("startGame", k, NoSignature, 0, 0)

\* deployZKApp of game2048.test.ts and the start of run.ts: deploy, startGame(player)
DeployZKApp == << Start(P1) >>

\* TILE_L of game2048.test.ts
TILE_L ==
  << Place(P1, 0, 0), Place(P1, 1, 0), Place(P1, 2, 0), Place(P1, 3, 0),
     Place(P1, 0, 1), Place(P1, 0, 2), Place(P1, 0, 3) >>

\* calls that build column j to 1,2,1,2 (top to bottom) but for its last
\* tile, while every other column is full or empty
ColumnA(j) ==
  << Place(P1, 0, j), Place(P1, 1, j), Move(P1, "moveUp"), Place(P1, 1, j),
     Place(P1, 2, j), Place(P1, 3, j), Move(P1, "moveDown") >>

\* calls that build column j to 2,1,2,1 (top to bottom) but for its last tile
ColumnB(j) ==
  << Place(P1, 3, j), Place(P1, 2, j), Move(P1, "moveDown"), Place(P1, 2, j),
     Place(P1, 1, j), Place(P1, 0, j), Move(P1, "moveUp") >>

\* A game played column by column until the board is full with no two
\* equal neighbours; before its last call every cell but (3,3) holds its
\* checkerboard code.
Checkerboard ==
  ColumnA(0) \o << Place(P1, 0, 0) >> \o ColumnB(1) \o << Place(P1, 3, 1) >>
    \o ColumnA(2) \o << Place(P1, 0, 2) >> \o ColumnB(3) \o << Place(P1, 3, 3) >>

\* One history of the account from its deployment: a first game (TILE_L,
\* one move up) that the player ends, then a second game played to the end.
History ==
  DeployZKApp \o TILE_L \o << Move(P1, "moveUp"), End(P1), Start(P1) >> \o Checkerboard

\* the calls of History after which the exploration starts: none
\* (deployment), startGame, TILE_L, the move up, endGame, and the last two
\* states of the second game
Marks ==
  { 0, Len(DeployZKApp), Len(DeployZKApp \o TILE_L), Len(DeployZKApp \o TILE_L) + 1,
    Len(DeployZKApp \o TILE_L) + 2, Len(History) - 1, Len(History) }

\* the account state after calls lo .. hi of a script, sent one by one from
\* state S: the first half of them, then the second half (the test on
\* T.gameDone always holds: the second half starts once the first is done)
RECURSIVE RunRange(_, _, _, _)
RunRange(S, script, lo, hi) ==
  IF lo > hi THEN S
  ELSE IF lo = hi THEN Commit(S, TxOf(S, script[lo]))
  ELSE LET mid == (lo + hi) \div 2
           T == RunRange(S, script, lo, mid)
       IN  IF T.gameDone \in BOOLEAN THEN RunRange(T, script, mid + 1, hi) ELSE S

\* the account state after the first n calls of a script sent from deployment
After(script, n) == RunRange(Deployed, script, 1, n)

\* The account states the exploration starts from: states of History.
StartStates == { After(History, n) : n \in Marks }

\* no moveTile has been applied
NoStep == [c |-> << 0, 0 >>, a |-> << 0, 0 >>, breakLoop |-> FALSE]

EngineIdle ==
  /\ gs = BoardOf(FieldZero)
  /\ op = "none"
  /\ packed = FieldZero
  /\ res = BoardOf(FieldZero)
  /\ has = FALSE
  /\ step = NoStep

\* no transaction waits to be sent and no test case is being run
DriverIdle ==
  /\ prepared = {}
  /\ commands = << >>

Init ==
  /\ \E S \in StartStates :
       /\ board = S.board
       /\ gameDone = S.gameDone
       /\ player = S.player
       /\ last = [call |-> CallOf("deploy", EmptyKey, NoSignature, 0, 0),
                  pre |-> S, seen |-> S, accepted |-> TRUE]
  /\ calls = 0
  /\ EngineIdle
  /\ DriverIdle

\* A further call is sent.  A rejected call leaves the account as it met
\* it, so whatever may follow it may follow the call before it: the
\* exploration stops at a rejection.
Sending == calls < MaxCalls /\ last.accepted

\* The account update tx of call c reaches the ledger: accepted and applied,
\* or rejected.  last keeps the call, the state the ledger held (pre), the
\* state the method had observed (seen) and the outcome.
Deliver(c, tx) ==
  /\ LET next == Commit(Cur, tx)
     IN  /\ board' = next.board
         /\ gameDone' = next.gameDone
         /\ player' = next.player
         /\ last' = [call |-> c, pre |-> Cur, seen |-> tx.seen,
                     accepted |-> Accepts(Cur, tx)]
  /\ calls' = calls + 1
  /\ UNCHANGED << gs, op, packed, res, has, step >>

\* One call c, whose method built the account update tx, sent as one
\* transaction: accepted and applied, or rejected.
Send(c, tx) ==
  /\ Deliver(c, tx)
  /\ UNCHANGED << prepared, commands >>

\* signatures a caller may hold: any key pair's signature over any action tag
\* and one of the listed values
Signatures(values) ==
  { Sig(k, t, v) : k \in Keys, t \in 1 .. 3, v \in values }

Coords == 0 .. MaxCoord

StartGame ==
  /\ Sending
  /\ \E p \in Keys : Send(Start(p), startGame(Cur, p))

AddTile ==
  /\ Sending
  /\ \E pubkey \in Keys, r \in Coords, c \in Coords :
       \E signature \in Signatures({r * BOARD_COLS + c, c * BOARD_COLS + r}) :
         Send(CallOf("addTile", pubkey, signature, r, c),
              addTile(Cur, pubkey, signature, r, c))

MoveUp ==
  /\ Sending
  /\ \E pubkey \in Keys, signature \in Signatures(0 .. 3) :
       Send(CallOf("moveUp", pubkey, signature, 0, 0), moveUpTx(Cur, pubkey, signature))

MoveDown ==
  /\ Sending
  /\ \E pubkey \in Keys, signature \in Signatures(0 .. 3) :
       Send(CallOf("moveDown", pubkey, signature, 0, 0), moveDownTx(Cur, pubkey, signature))

MoveLeft ==
  /\ Sending
  /\ \E pubkey \in Keys, signature \in Signatures(0 .. 3) :
       Send(CallOf("moveLeft", pubkey, signature, 0, 0), moveLeftTx(Cur, pubkey, signature))

MoveRight ==
  /\ Sending
  /\ \E pubkey \in Keys, signature \in Signatures(0 .. 3) :
       Send(CallOf("moveRight", pubkey, signature, 0, 0), moveRightTx(Cur, pubkey, signature))

EndGame ==
  /\ Sending
  /\ \E pubkey \in Keys, signature \in Signatures(0 .. 3) :
       Send(CallOf("endGame", pubkey, signature, 0, 0), endGame(Cur, pubkey, signature))

Next ==
  \/ StartGame
  \/ AddTile
  \/ MoveUp
  \/ MoveDown
  \/ MoveLeft
  \/ MoveRight
  \/ EndGame

Spec == Init /\ [][Next]_vars

-----------------------------------------------------------------------------
(* Specification EngineSpec: the Board class as pure functions             *)

\* codes 0 .. MaxLowCode, with 16 and 17, fill the lines the moves are tried on
MaxLowCode == 2

LineCodes == (0 .. MaxLowCode) \cup {16, 17}

\* packed fields with every m-th bit set are tried for m in 1 .. MaxStripe
MaxStripe == 7

\* every line of BOARD_ROWS cells over LineCodes
Lines == [1 .. BOARD_ROWS -> LineCodes]

\* the board whose columns are alternately the lines l1 and l2
ColumnBoard(l1, l2) ==
  LET row(i) == LET rowCell(j) == IF j % 2 = 0 THEN l1[i + 1] ELSE l2[i + 1]
                IN  ArrayOf(BOARD_COLS, rowCell)
  IN  ArrayOf(BOARD_ROWS, row)

\* the board whose rows are alternately the lines l1 and l2
RowBoard(l1, l2) ==
  LET row(i) == LET rowCell(j) == IF i % 2 = 0 THEN l1[j + 1] ELSE l2[j + 1]
                IN  ArrayOf(BOARD_COLS, rowCell)
  IN  ArrayOf(BOARD_ROWS, row)

\* game states the moves are tried on: every line against an empty line and
\* against a line of four 17s, as columns and as rows, score 0
LineStates ==
  { [board |-> B, ended |-> FALSE, score |-> 0] :
      B \in { ColumnBoard(l1, l2) : l1 \in Lines,
                                    l2 \in { <<0, 0, 0, 0>>, <<17, 17, 17, 17>> } }
           \cup { RowBoard(l1, l2) : l1 \in Lines,
                                     l2 \in { <<0, 0, 0, 0>>, <<17, 17, 17, 17>> } } }

\* the board whose cell (i, j) holds code (k + BOARD_COLS * i + j) mod 18
ShiftBoard(k) ==
  LET row(i) == LET rowCell(j) == (k + BOARD_COLS * i + j) % 18
                IN  ArrayOf(BOARD_COLS, rowCell)
  IN  ArrayOf(BOARD_ROWS, row)

\* game states the codec is tried on: every code 0 .. 17 in every cell, both
\* values of ended, scores at both ends of 0 .. 2^31 - 1 and in between
CodecStates ==
  { [board |-> ShiftBoard(k), ended |-> e, score |-> sc] :
      k \in 0 .. 17, e \in BOOLEAN,
      sc \in { 0, 1, 2^30 - 1, 2^30, 2^30 + 12, (2^30 - 1) + 2^30 } }

\* the field whose bit k (weight 2^k) is set exactly when In(k) holds, for
\* k below BOARD_ROWS * BOARD_COLS * NUM_BITS + 32: an integer below 2^112
FieldOf(In(_)) ==
  [k \in 1 .. DECODE_BITS |-> k < DECODE_BITS /\ In(k - 1)]

\* packed fields the constructor is tried on, whether or not serialize can
\* produce them: one bit set, all bits but one set, and every m-th bit set
\* (m = 1 sets them all: every cell 31, ended true, score 2^31 - 1)
PackedFields ==
  { LET In(k) == (k = n) IN FieldOf(In) : n \in 0 .. (DECODE_BITS - 2) }
    \cup { LET In(k) == (k # n) IN FieldOf(In) : n \in 0 .. (DECODE_BITS - 2) }
    \cup UNION { { LET In(k) == (k % m = r) IN FieldOf(In) : r \in 0 .. (m - 1) } :
                 m \in 1 .. MaxStripe }

EngineInit ==
  /\ \/ gs \in LineStates \cup CodecStates /\ packed = FieldZero
     \/ gs = BoardOf(FieldZero) /\ packed \in PackedFields
  /\ op = "none"
  /\ res = gs
  /\ board = Deployed.board
  /\ gameDone = Deployed.gameDone
  /\ player = Deployed.player
  /\ last = [call |-> CallOf("deploy", EmptyKey, NoSignature, 0, 0),
             pre |-> Deployed, seen |-> Deployed, accepted |-> TRUE]
  /\ calls = 0
  /\ has = FALSE
  /\ step = NoStep
  /\ DriverIdle

\* board.serialize()
Serialize ==
  /\ op = "none"
  /\ packed' = serialize(gs)
  /\ op' = "serialize"
  /\ UNCHANGED << gs, res, has, board, gameDone, player, last, calls, step,
                  prepared, commands >>

\* new Board(field)
Decode ==
  /\ op = "serialize"
  /\ res' = BoardOf(packed)
  /\ op' = "decode"
  /\ UNCHANGED << gs, packed, has, board, gameDone, player, last, calls, step,
                  prepared, commands >>

\* board.hasNextMove()
HasNextMove ==
  /\ op = "none"
  /\ has' = hasNextMove(gs)
  /\ op' = "hasNextMove"
  /\ UNCHANGED << gs, packed, res, board, gameDone, player, last, calls, step,
                  prepared, commands >>

\* One move applied to gs.  (Scores stay below 2^30 so that the sums stay
\* within the integers of the checker.)
EngineMove(o, after) ==
  /\ op = "none"
  /\ gs.score < 2^30
  /\ res' = after
  /\ op' = o
  /\ UNCHANGED << gs, packed, has, board, gameDone, player, last, calls, step,
                  prepared, commands >>

EngineMoveUp == EngineMove("moveUp", moveUp(gs))
EngineMoveDown == EngineMove("moveDown", moveDown(gs))
EngineMoveLeft == EngineMove("moveLeft", moveLeft(gs))
EngineMoveRight == EngineMove("moveRight", moveRight(gs))

\* new Board(field) on a field that was not produced by serialize
DecodeField ==
  /\ op = "none"
  /\ res' = BoardOf(packed)
  /\ op' = "decodeField"
  /\ UNCHANGED << gs, packed, has, board, gameDone, player, last, calls, step,
                  prepared, commands >>

\* the pairs (c, a) moveTile is tried on: the first call of each move
StepPairs ==
  { UpPasses[1][1], DownPasses[1][1], LeftPasses[1][1], RightPasses[1][1] }

\* board.moveTile(c, a, breakLoop): one merge step
MoveTile ==
  /\ op = "none"
  /\ gs.score < 2^30
  /\ \E p \in StepPairs, breakLoop \in BOOLEAN :
       LET r == moveTile(gs, p[1], p[2], breakLoop)
       IN  /\ res' = r.b
           /\ has' = r.ret
           /\ step' = [c |-> p[1], a |-> p[2], breakLoop |-> breakLoop]
  /\ op' = "moveTile"
  /\ UNCHANGED << gs, packed, board, gameDone, player, last, calls,
                  prepared, commands >>

EngineNext ==
  \/ Serialize
  \/ Decode
  \/ DecodeField
  \/ MoveTile
  \/ HasNextMove
  \/ EngineMoveUp
  \/ EngineMoveDown
  \/ EngineMoveLeft
  \/ EngineMoveRight

EngineSpec == EngineInit /\ [][EngineNext]_vars

-----------------------------------------------------------------------------
(* Specification ScenarioSpec: the test driver of game2048.test.ts, which   *)
(* deploys the contract, starts a game and sends the commands of one test  *)
(* case one by one.  calls counts the calls sent (the startGame of          *)
(* deployZKApp included), so the next command is commands[calls].          *)

\* the command lists of TESTCASES, and one longer game
TESTCASES ==
  { TILE_L,
    TILE_L \o << End(P1) >>,
    TILE_L \o << Move(P1, "moveUp") >>,
    TILE_L \o << Move(P1, "moveDown") >>,
    TILE_L \o << Move(P1, "moveLeft") >>,
    TILE_L \o << Move(P1, "moveRight") >>,
    TILE_L \o << Move(P1, "moveUp"), Move(P1, "moveUp") >>,
    TILE_L \o << Move(P1, "moveDown"), Move(P1, "moveDown") >>,
    TILE_L \o << Move(P1, "moveLeft"), Move(P1, "moveLeft") >>,
    TILE_L \o << Move(P1, "moveRight"), Move(P1, "moveRight") >>,
    Checkerboard }

ScenarioInit ==
  /\ board = Deployed.board
  /\ gameDone = Deployed.gameDone
  /\ player = Deployed.player
  /\ last = [call |-> CallOf("deploy", EmptyKey, NoSignature, 0, 0),
             pre |-> Deployed, seen |-> Deployed, accepted |-> TRUE]
  /\ calls = 0
  /\ EngineIdle
  /\ prepared = {}
  /\ commands \in TESTCASES

\* the next command of the test case is a call of method o
Commanded(o) ==
  /\ calls \in 1 .. Len(commands)
  /\ commands[calls].op = o

\* deployZKApp: deploy, then startGame(player)
RunDeployZKApp ==
  /\ calls = 0
  /\ Deliver(Start(P1), startGame(Cur, P1))
  /\ UNCHANGED << prepared, commands >>

RunAddTile ==
  /\ Commanded("addTile")
  /\ LET c == commands[calls]
     IN  Deliver(c, addTile(Cur, c.pubkey, c.signature, c.r, c.c))
  /\ UNCHANGED << prepared, commands >>

RunMoveUp ==
  /\ Commanded("moveUp")
  /\ LET c == commands[calls] IN Deliver(c, moveUpTx(Cur, c.pubkey, c.signature))
  /\ UNCHANGED << prepared, commands >>

RunMoveDown ==
  /\ Commanded("moveDown")
  /\ LET c == commands[calls] IN Deliver(c, moveDownTx(Cur, c.pubkey, c.signature))
  /\ UNCHANGED << prepared, commands >>

RunMoveLeft ==
  /\ Commanded("moveLeft")
  /\ LET c == commands[calls] IN Deliver(c, moveLeftTx(Cur, c.pubkey, c.signature))
  /\ UNCHANGED << prepared, commands >>

RunMoveRight ==
  /\ Commanded("moveRight")
  /\ LET c == commands[calls] IN Deliver(c, moveRightTx(Cur, c.pubkey, c.signature))
  /\ UNCHANGED << prepared, commands >>

RunEndGame ==
  /\ Commanded("endGame")
  /\ LET c == commands[calls] IN Deliver(c, endGame(Cur, c.pubkey, c.signature))
  /\ UNCHANGED << prepared, commands >>

ScenarioNext ==
  \/ RunDeployZKApp
  \/ RunAddTile
  \/ RunMoveUp
  \/ RunMoveDown
  \/ RunMoveLeft
  \/ RunMoveRight
  \/ RunEndGame

ScenarioSpec == ScenarioInit /\ [][ScenarioNext]_vars

-----------------------------------------------------------------------------
(* Specification RaceSpec: clients that prove transactions against the     *)
(* state they observe and send them later, in any order.  Mina.transaction *)
(* runs the method on the observed state (a failed assertion throws and no *)
(* transaction exists); send() commits it against the state then current.  *)

\* transactions proved since the initial state, sent or not
MaxPrepared == 2

\* the cells the racing placements aim at
RaceCells == { <<0, 0>>, <<1, 1>>, <<3, 3>> }

\* a first game that the player ends before placing a tile
Abandoned == DeployZKApp \o << End(P1) >>

RaceInit ==
  /\ \E S \in StartStates \cup { After(Abandoned, Len(Abandoned)) } :
       /\ board = S.board
       /\ gameDone = S.gameDone
       /\ player = S.player
       /\ last = [call |-> CallOf("deploy", EmptyKey, NoSignature, 0, 0),
                  pre |-> S, seen |-> S, accepted |-> TRUE]
  /\ calls = 0
  /\ EngineIdle
  /\ prepared = {}
  /\ commands = << >>

Preparing == calls + Cardinality(prepared) < MaxPrepared

\* the method of call c ran on the current state without throwing: its
\* account update tx waits to be sent
Prepare(c, tx) ==
  /\ tx.ok
  /\ prepared' = prepared \cup { [call |-> c, tx |-> tx] }
  /\ UNCHANGED << board, gameDone, player, last, calls, gs, op, packed, res, has,
                  step, commands >>

PrepareStartGame ==
  /\ Preparing
  /\ \E k \in Keys : Prepare(Start(k), startGame(Cur, k))

PrepareAddTile ==
  /\ Preparing
  /\ \E k \in Keys, x \in RaceCells :
       Prepare(Place(k, x[1], x[2]), addTile(Cur, k, Sig(k, 2, x[1] * 4 + x[2]), x[1], x[2]))

PrepareMoveUp ==
  /\ Preparing
  /\ \E k \in Keys : Prepare(Move(k, "moveUp"), moveUpTx(Cur, k, Sig(k, 1, 0)))

PrepareMoveDown ==
  /\ Preparing
  /\ \E k \in Keys : Prepare(Move(k, "moveDown"), moveDownTx(Cur, k, Sig(k, 1, 1)))

PrepareMoveLeft ==
  /\ Preparing
  /\ \E k \in Keys : Prepare(Move(k, "moveLeft"), moveLeftTx(Cur, k, Sig(k, 1, 2)))

PrepareMoveRight ==
  /\ Preparing
  /\ \E k \in Keys : Prepare(Move(k, "moveRight"), moveRightTx(Cur, k, Sig(k, 1, 3)))

PrepareEndGame ==
  /\ Preparing
  /\ \E k \in Keys : Prepare(End(k), endGame(Cur, k, Sig(k, 3, 0)))

\* txn.send() of one of the waiting transactions
SendPrepared ==
  \E p \in prepared :
    /\ Deliver(p.call, p.tx)
    /\ prepared' = prepared \ {p}
    /\ UNCHANGED commands

RaceNext ==
  \/ PrepareStartGame
  \/ PrepareAddTile
  \/ PrepareMoveUp
  \/ PrepareMoveDown
  \/ PrepareMoveLeft
  \/ PrepareMoveRight
  \/ PrepareEndGame
  \/ SendPrepared

RaceSpec == RaceInit /\ [][RaceNext]_vars

-----------------------------------------------------------------------------
(* Properties of the contract, checked under Spec.  They read the latest   *)
(* call: last.call, the state it met (last.pre), whether it was accepted   *)
(* (last.accepted) and the state it left (board, gameDone, player).        *)

\* the methods that change the board, and the methods behind assertSignature
PlayOps == Moves \cup {"addTile"}
GatedOps == PlayOps \cup {"endGame"}

\* the action tag each method is said to require of a signature
ClaimedTag(call) ==
  CASE call.op \in Moves -> 1 [] call.op = "addTile" -> 2 [] call.op = "endGame" -> 3

\* the value each method is said to require of a signature
ClaimedValue(call) ==
  CASE call.op = "moveUp" -> 0 [] call.op = "moveDown" -> 1
    [] call.op = "moveLeft" -> 2 [] call.op = "moveRight" -> 3
    [] call.op = "addTile" -> 4 * call.r + call.c
    [] call.op = "endGame" -> 0

\* the call carries the key's signature over the pair of its method
SignedForItsMethod(call) ==
  call.signature = Sig(call.pubkey, ClaimedTag(call), ClaimedValue(call))

\* the call is made by the registered player of state S with such a signature
Authorised(call, S) == call.pubkey = S.player /\ SignedForItsMethod(call)

\* C1: while gameDone is true every addTile and every move is rejected,
\* whatever its signature and arguments; and an accepted placement or move
\* that leaves a board without a next move leaves gameDone true.
C1_GameDoneBlocksPlay ==
  /\ (last.call.op \in PlayOps /\ last.pre.gameDone) => ~last.accepted
  /\ (last.call.op \in PlayOps /\ last.accepted /\ ~hasNextMove(BoardOf(board)))
       => gameDone

\* C1 witness: the registered player, with the right signature, makes a move
\* or placement in a finished game and is rejected.
C1_Witness ==
  /\ last.call.op \in PlayOps
  /\ last.pre.gameDone
  /\ Authorised(last.call, last.pre)
  /\ ~last.accepted

\* C2: a call behind assertSignature is accepted only if the key it supplies
\* is the registered player.
C2_OnlyRegisteredPlayer ==
  (last.call.op \in GatedOps /\ last.accepted) => last.call.pubkey = last.pre.player

\* C2 witness: another key, with its own valid signature for the method, is
\* rejected in a game in progress.
C2_Witness ==
  /\ last.call.op \in GatedOps
  /\ ~last.pre.gameDone
  /\ last.call.pubkey # last.pre.player
  /\ SignedForItsMethod(last.call)
  /\ ~last.accepted

\* C3: a call behind assertSignature is accepted only if its signature is the
\* supplied key's signature over exactly the pair of the invoked method:
\* (1,0) up, (1,1) down, (1,2) left, (1,3) right, (2, 4r+c) addTile, (3,0) endGame.
C3_SignatureBindsAction ==
  (last.call.op \in GatedOps /\ last.accepted) => SignedForItsMethod(last.call)

\* C3 witness: the player's signature for moveUp is presented to moveDown in
\* a game in progress and is rejected.
C3_Witness ==
  /\ last.call.op = "moveDown"
  /\ ~last.pre.gameDone
  /\ last.call.pubkey = last.pre.player
  /\ last.call.signature = Sig(last.pre.player, 1, 0)
  /\ ~last.accepted

\* C4: startGame(p) is accepted exactly when gameDone is true, which it is
\* after deployment; rejected, it changes nothing; accepted, it registers p,
\* sets the packed board to 0 (all cells empty, ended false, score 0) and
\* gameDone to false.
C4_StartGame ==
  /\ Deployed.gameDone
  /\ last.call.op = "startGame" =>
       /\ last.accepted <=> last.pre.gameDone
       /\ ~last.accepted => Cur = last.pre
       /\ last.accepted =>
            /\ player = last.call.pubkey
            /\ gameDone = FALSE
            /\ board = FieldZero
            /\ BoardOf(board).ended = FALSE
            /\ BoardOf(board).score = 0
            /\ \A i \in Rows, j \in Cols : At(BoardOf(board), i, j) = 0

\* C4 witness: startGame is accepted over a finished game whose board holds
\* tiles and whose player is another key.
C4_Witness ==
  /\ last.call.op = "startGame"
  /\ last.accepted
  /\ last.pre.board # FieldZero
  /\ last.pre.player # last.call.pubkey
  /\ last.pre.player # EmptyKey

\* C5: endGame by the registered player with the signature over (3,0) is
\* accepted whenever gameDone is false, whatever the board, and sets gameDone;
\* endGame is rejected whenever gameDone is true.
C5_EndGame ==
  last.call.op = "endGame" =>
    /\ (Authorised(last.call, last.pre) /\ ~last.pre.gameDone)
         => (last.accepted /\ gameDone)
    /\ last.pre.gameDone => ~last.accepted

\* C5 witness: endGame is accepted on a board that holds tiles and still has
\* a next move.
C5_Witness ==
  /\ last.call.op = "endGame"
  /\ last.accepted
  /\ last.pre.board # FieldZero
  /\ hasNextMove(BoardOf(last.pre.board))

C7_OccupiedCellRejected ==
  ( /\ last.call.op = "addTile"
    /\ ~last.pre.gameDone
    /\ last.call.r \in Rows /\ last.call.c \in Cols
    /\ At(BoardOf(last.pre.board), last.call.r, last.call.c) # 0 )
  => (~last.accepted /\ Cur = last.pre)

\* C7 witness: the registered player, with the right signature, places on an
\* occupied cell of a game in progress.
C7_Witness ==
  /\ last.call.op = "addTile"
  /\ ~last.pre.gameDone
  /\ last.call.r \in Rows /\ last.call.c \in Cols
  /\ At(BoardOf(last.pre.board), last.call.r, last.call.c) # 0
  /\ Authorised(last.call, last.pre)
  /\ ~last.accepted

\* the score decoded from a packed board
ScoreOf(field) == BoardOf(field).score

\* the highest cell code decoded from a packed board
MaxCodeOf(field) ==
  LET b == BoardOf(field)
  IN  CHOOSE m \in 0 .. 31 :
        /\ \E i \in Rows, j \in Cols : At(b, i, j) = m
        /\ \A i \in Rows, j \in Cols : At(b, i, j) <= m

\* C11: within a game the score decoded from the persisted board never
\* decreases over an accepted move or placement, and a placement leaves it
\* unchanged.  (A sequence of accepted calls is a chain of such steps.)
C11_ScoreNeverDecreases ==
  (last.call.op \in PlayOps /\ last.accepted) =>
    /\ ScoreOf(board) >= ScoreOf(last.pre.board)
    /\ last.call.op = "addTile" => ScoreOf(board) = ScoreOf(last.pre.board)

\* C11 witness: a placement is accepted in a game whose score is not zero.
C11_Witness ==
  /\ last.call.op = "addTile"
  /\ last.accepted
  /\ ScoreOf(last.pre.board) > 0
  /\ board # last.pre.board

\* C12: after every accepted addTile and every accepted move, gameDone and
\* the ended bit decoded from the persisted board both equal the negation of
\* hasNextMove of the persisted board.
C12_EndedIsNoNextMove ==
  (last.call.op \in PlayOps /\ last.accepted) =>
    LET b == BoardOf(board)
    IN  /\ gameDone = ~hasNextMove(b)
        /\ b.ended = ~hasNextMove(b)

\* C12 witness: an accepted placement fills the last empty cell of a board
\* without equal neighbours; the game is then over.
C12_Witness ==
  /\ last.call.op = "addTile"
  /\ last.accepted
  /\ ~last.pre.gameDone
  /\ gameDone
  /\ BoardOf(board).ended

\* C15: in every state reached from deployment by accepted calls, every cell
\* code of the persisted board lies in 0..17.
C15_CodesInRange ==
  LET b == BoardOf(board)
  IN  \A i \in Rows, j \in Cols : At(b, i, j) \in 0 .. 17

\* C15 witness: an accepted move has merged tiles into a tile of a code
\* higher than any before it.
C15_Witness ==
  /\ last.call.op \in Moves
  /\ last.accepted
  /\ MaxCodeOf(board) > MaxCodeOf(last.pre.board)
  /\ MaxCodeOf(board) >= 3

\* C23: the player is changed only by an accepted startGame and the packed
\* board only by an accepted startGame, addTile or move; addTile, the four
\* moves and endGame leave the player unchanged, and endGame leaves the
\* packed board unchanged (of the three values it changes gameDone only).
C23_Frame ==
  /\ player # last.pre.player => (last.accepted /\ last.call.op = "startGame")
  /\ board # last.pre.board
       => (last.accepted /\ last.call.op \in PlayOps \cup {"startGame"})
  /\ last.call.op \in GatedOps => player = last.pre.player
  /\ last.call.op = "endGame" => board = last.pre.board

\* C23 witness: an accepted endGame has ended a game whose board holds
\* tiles: gameDone went from false to true, board and player stayed.
C23_Witness ==
  /\ last.call.op = "endGame"
  /\ last.accepted
  /\ ~last.pre.gameDone /\ gameDone
  /\ board = last.pre.board /\ board # FieldZero
  /\ player = last.pre.player

Cells == Rows \X Cols

\* number of cells of b that hold code
CountOf(b, code) ==
  Cardinality({ cell \in Rows \X Cols : At(b, cell[1], cell[2]) = code })

\* the cells whose code differs between game states x and y
ChangedCells(x, y) ==
  { cell \in Cells : At(x, cell[1], cell[2]) # At(y, cell[1], cell[2]) }

\* C27 (as claimed): every accepted addTile(r, c), whatever the values r and
\* c, changes exactly one cell of the board, the cell (r, c), which goes from
\* 0 to code 1, and leaves the score unchanged; the cell is the one whose
\* linear index 4*r + c the signature covers, so that placements signed
\* with the same value target the same cell.
C27_PlacesOneTile ==
  (last.call.op = "addTile" /\ last.accepted) =>
    LET before == BoardOf(last.pre.board)
        after == BoardOf(board)
        value == BOARD_COLS * last.call.r + last.call.c
    IN  /\ ChangedCells(before, after) = { << last.call.r, last.call.c >> }
        /\ At(before, last.call.r, last.call.c) = 0
        /\ At(after, last.call.r, last.call.c) = 1
        /\ after.score = before.score
        /\ last.call.r = value \div BOARD_COLS
        /\ last.call.c = value % BOARD_COLS

\* C29: no accepted move ends a game: after an accepted moveUp, moveDown,
\* moveLeft or moveRight gameDone is still false; gameDone passes from false
\* to true only through an accepted addTile or endGame.
C29_MovesNeverEnd ==
  /\ (last.call.op \in Moves /\ last.accepted) => (~last.pre.gameDone /\ ~gameDone)
  /\ (~last.pre.gameDone /\ gameDone)
       => (last.accepted /\ last.call.op \in {"addTile", "endGame"})

\* C29 witness: a move has been accepted on a board with a single empty
\* cell and has changed it; the game is still in progress.
C29_Witness ==
  /\ last.call.op \in Moves
  /\ last.accepted
  /\ CountOf(BoardOf(last.pre.board), 0) = 1
  /\ board # last.pre.board
  /\ ~gameDone

\* C31 (as claimed): in every reachable state, from deployment on, the
\* ended bit decoded from the persisted packed board equals gameDone.
C31_EndedIsGameDone ==
  BoardOf(board).ended = gameDone

\* C31 (amended): in every reachable state the ended bit decoded from the
\* persisted packed board is true only if gameDone is true; after every
\* accepted startGame, addTile or move the two are equal; at deployment and
\* after an accepted endGame gameDone is true and the ended bit is false.
C31_EndedOnlyIfGameDone ==
  LET b == BoardOf(board)
  IN  /\ b.ended => gameDone
      /\ (last.accepted /\ last.call.op \in PlayOps \cup {"startGame"})
           => b.ended = gameDone
      /\ (last.accepted /\ last.call.op = "endGame") => (gameDone /\ ~b.ended)
      /\ Cur = Deployed => (gameDone /\ ~b.ended)

\* C31 witness: an accepted endGame has ended a game whose board holds
\* tiles; gameDone is true and the board still decodes to ended false.
C31_Witness ==
  /\ last.call.op = "endGame"
  /\ last.accepted
  /\ gameDone
  /\ board # FieldZero
  /\ ~BoardOf(board).ended

\* The account update of a method that does nothing but call
\* assertSignature with the pair of the method of call, run on state S; the
\* gate passes in S when the ledger accepts it in S.
GateTx(S, call) ==
  Gated(S, assertSignature(S, call.pubkey, call.signature,
                           ClaimedTag(call), ClaimedValue(call)),
        S.board, S.gameDone)

GatePasses(S, call) == Accepts(S, GateTx(S, call))

\* the states of History in which a game of player p is in progress
InProgressWith(p) == { S \in StartStates : ~S.gameDone /\ S.player = p }

\* the state of the second game of History before its last placement
SecondGame == After(History, Len(History) - 1)

\* C32: whether the gate passes does not depend on the board: a key and
\* signature presented for an action in a game in progress pass the gate
\* there exactly if they pass it, for the same action, in every other state
\* of a game in progress with the same registered player, states of later
\* games included; for the moves and endGame, which assert nothing else,
\* the call itself is then accepted in each of these states.
C32_SignatureReplays ==
  (last.call.op \in GatedOps /\ ~last.pre.gameDone) =>
    /\ last.accepted => GatePasses(last.pre, last.call)
    /\ last.call.op # "addTile" => (GatePasses(last.pre, last.call) => last.accepted)
    /\ \A S \in InProgressWith(last.pre.player) :
         /\ GatePasses(S, last.call) <=> GatePasses(last.pre, last.call)
         /\ last.call.op # "addTile"
              => (Accepts(S, TxOf(S, last.call)) <=> last.accepted)

\* C32 witness: in the second game of History, on a board with fifteen
\* tiles, moveUp is accepted with the signature over (1, 0) that the first
\* game and the second game have already used.
C32_Witness ==
  /\ last.call = Move(P1, "moveUp")
  /\ last.accepted
  /\ last.pre = SecondGame
  /\ History[Len(DeployZKApp \o TILE_L) + 1] = last.call
  /\ CountOf(BoardOf(last.pre.board), 0) = 1

-----------------------------------------------------------------------------
(* Property of transactions sent out of order, checked under RaceSpec.     *)
(* last.seen is the state the sent transaction was proved against,         *)
(* last.pre the state persisted when it was sent.                          *)

\* C14 (as claimed): a transaction computed against a snapshot of (board,
\* gameDone, player) is rejected when a transaction sent before it changed
\* any of the values it has a precondition on: board, gameDone and player
\* for the methods behind assertSignature, gameDone for startGame; and every
\* accepted transaction leaves the state its method computes from the state
\* persisted just before it.
C14_AnyChangeRejects ==
  last.call.op # "deploy" =>
    /\ (last.call.op \in GatedOps /\ last.seen # last.pre) => ~last.accepted
    /\ (last.call.op = "startGame" /\ last.seen.gameDone # last.pre.gameDone)
         => ~last.accepted
    /\ last.accepted => Cur = TxOf(last.pre, last.call).post

\* C14 (amended): a transaction behind assertSignature is pinned to the board
\* and the player it observed and requires gameDone = false; startGame
\* requires gameDone = true.  Sent after another transaction changed the
\* pinned board or player, or while gameDone differs from the value it
\* requires, it is rejected and changes nothing.  Hence every accepted
\* transaction leaves exactly the state its method computes from the state
\* persisted just before it.
C14_StaleRejected ==
  last.call.op # "deploy" =>
    /\ ( /\ last.call.op \in GatedOps
         /\ \/ last.seen.board # last.pre.board
            \/ last.seen.player # last.pre.player
            \/ last.pre.gameDone ) => ~last.accepted
    /\ (last.call.op = "startGame" /\ ~last.pre.gameDone) => ~last.accepted
    /\ ~last.accepted => Cur = last.pre
    /\ last.accepted =>
         /\ Accepts(last.pre, TxOf(last.pre, last.call))
         /\ Cur = TxOf(last.pre, last.call).post

\* C14 witness: of two transactions of the player proved against the same
\* state of a game in progress, the first was accepted and changed the
\* board; the second is rejected for that reason alone.
C14_Witness ==
  /\ last.call.op \in PlayOps
  /\ ~last.accepted
  /\ ~last.pre.gameDone
  /\ ~last.seen.gameDone
  /\ last.seen.player = last.pre.player
  /\ last.seen.board # last.pre.board
  /\ calls = 2

-----------------------------------------------------------------------------
(* Properties of the Board class, checked under EngineSpec.  gs is the     *)
(* game state an operation was applied to, op the operation, res (packed   *)
(* for serialize) what it produced.                                        *)

\* C8: for cell codes in 0..17, either value of ended and 0 <= score < 2^31,
\* decoding the field that serialize produced gives back the same board,
\* ended flag and score.
C8_RoundTrip ==
  op = "decode" => res = gs

\* C8 witness: a state with code 17 in a cell, ended true and the greatest
\* score, 2^31 - 1, has been serialized and decoded.
C8_Witness ==
  /\ op = "decode"
  /\ gs.ended
  /\ gs.score = (2^30 - 1) + 2^30
  /\ At(gs, 0, 0) = 17

\* a line whose equal neighbours are merged once each, from its first cell on
RECURSIVE MergePairs(_)
MergePairs(line) ==
  IF Len(line) < 2 THEN line
  ELSE IF line[1] = line[2]
       THEN << line[1] + 1 >> \o MergePairs(SubSeq(line, 3, Len(line)))
       ELSE << line[1] >> \o MergePairs(Tail(line))

IsTile(code) == code # 0

\* the collapse of 2048 on a line read from the edge the move goes to:
\* slide, merge each equal adjacent pair once starting at the edge, slide
StandardCollapse(line) ==
  LET merged == MergePairs(SelectSeq(line, IsTile))
  IN  merged \o [k \in 1 .. (Len(line) - Len(merged)) |-> 0]

\* line n of grid B for move o, read from the edge the move goes to
LineOf(B, o, n) ==
  CASE o = "moveUp"    -> [k \in 1 .. BOARD_ROWS |-> B[k][n]]
    [] o = "moveDown"  -> [k \in 1 .. BOARD_ROWS |-> B[BOARD_ROWS + 1 - k][n]]
    [] o = "moveLeft"  -> [k \in 1 .. BOARD_COLS |-> B[n][k]]
    [] o = "moveRight" -> [k \in 1 .. BOARD_COLS |-> B[n][BOARD_COLS + 1 - k]]

\* C9 (as claimed): within one move each tile merges at most once, so every
\* line of the board after a move is the standard 2048 collapse of that line
\* before the move.
C9_StandardCollapse ==
  op \in Moves =>
    \A n \in 1 .. BOARD_ROWS :
      LineOf(res.board, op, n) = StandardCollapse(LineOf(gs.board, op, n))

RECURSIVE SumFrom(_, _)
SumFrom(values, k) ==
  IF k > Len(values) THEN 0 ELSE values[k] + SumFrom(values, k + 1)

\* Sum over the cells of code * 2^code.  Sliding a tile keeps it; a merge of
\* two tiles of code e raises it by (e+1) * 2^(e+1) - 2 * e * 2^e = 2^(e+1).
\* Its increase over a move is the sum of 2^(e+1) over the merges performed.
MergeValue(b) ==
  SumFrom([k \in 1 .. BOARD_ROWS * BOARD_COLS |->
             LET code == At(b, (k - 1) \div BOARD_COLS, (k - 1) % BOARD_COLS)
             IN  code * 2^code], 1)

\* number of tiles on b; each merge lowers it by one
Tiles(b) == BOARD_ROWS * BOARD_COLS - CountOf(b, 0)

\* C10 (as claimed): on boards with codes in 0..17 a move raises the score by
\* the sum of 2^(e+1) over its merges, e the code of the two tiles merged;
\* a move without a merge leaves the score unchanged.
C10_ScoreIsMergeSum ==
  op \in Moves =>
    /\ res.score - gs.score = MergeValue(res) - MergeValue(gs)
    /\ Tiles(res) = Tiles(gs) => res.score = gs.score

\* C10 (amended): a move raises the score by the sum of 2^(e+1) over its
\* merges of tiles of code e <= 16; a merge of two tiles of code 17, which
\* creates a tile of code 18, adds nothing; a move without a merge leaves
\* the score unchanged.
C10_ScoreIsMergeSumBelow17 ==
  op \in Moves =>
    /\ res.score - gs.score =
         MergeValue(res) - MergeValue(gs) - 2^18 * CountOf(res, 18)
    /\ Tiles(res) = Tiles(gs) => res.score = gs.score

\* C10 witness: one move merged two tiles of code 17 and also merged tiles
\* of a lower code, which raised the score.
C10_Witness ==
  /\ op \in Moves
  /\ CountOf(res, 18) > 0
  /\ res.score > gs.score

\* cells of the grid
\* some cell of grid B is empty, or two cells of B that are neighbours in a
\* column, or in a row, hold equal codes
LegalMoveExists(B) ==
  \/ \E x \in Cells : B[x[1] + 1][x[2] + 1] = 0
  \/ \E x \in Cells, y \in Cells :
       /\ \/ (x[2] = y[2] /\ y[1] = x[1] + 1)
          \/ (x[1] = y[1] /\ y[2] = x[2] + 1)
       /\ B[x[1] + 1][x[2] + 1] = B[y[1] + 1][y[2] + 1]

\* C13: hasNextMove returns true if and only if some cell is empty, or two
\* vertically adjacent cells of a column hold equal codes, or two horizontally
\* adjacent cells of a row hold equal codes.
C13_HasNextMoveIff ==
  op = "hasNextMove" => (has <=> LegalMoveExists(gs.board))

\* C13 witness: hasNextMove was applied to a full board whose only equal
\* neighbours lie side by side in a row.
C13_Witness ==
  /\ op = "hasNextMove"
  /\ has
  /\ \A x \in Cells : At(gs, x[1], x[2]) # 0
  /\ \A j \in Cols, i \in 0 .. (BOARD_ROWS - 2) : At(gs, i, j) # At(gs, i + 1, j)

\* reflections of a game state: rows upside down, columns left to right,
\* and rows exchanged with columns
FlipRows(b) ==
  [b EXCEPT !.board = [i \in 1 .. BOARD_ROWS |-> b.board[BOARD_ROWS + 1 - i]]]
FlipCols(b) ==
  [b EXCEPT !.board = [i \in 1 .. BOARD_ROWS |->
                         [j \in 1 .. BOARD_COLS |-> b.board[i][BOARD_COLS + 1 - j]]]]
Transpose(b) ==
  [b EXCEPT !.board = [i \in 1 .. BOARD_COLS |->
                         [j \in 1 .. BOARD_ROWS |-> b.board[j][i]]]]

\* C16: moveDown is moveUp conjugated by the vertical reflection, moveLeft is
\* moveUp conjugated by transposition, moveRight is moveLeft conjugated by the
\* horizontal reflection: same cells, same score, same ended flag.
C16_DirectionsSymmetric ==
  /\ op = "moveDown" => res = FlipRows(moveUp(FlipRows(gs)))
  /\ op = "moveLeft" => res = Transpose(moveUp(Transpose(gs)))
  /\ op = "moveRight" => res = FlipCols(moveLeft(FlipCols(gs)))

\* C16 witness: moveDown slid and merged tiles on a board that is not its own
\* vertical reflection.
C16_Witness ==
  /\ op = "moveDown"
  /\ gs.board # FlipRows(gs).board
  /\ res.board # gs.board
  /\ res.score > gs.score

\* a line, read from the edge the move goes to, in which no empty cell lies
\* before a tile and no two adjacent tiles are equal
SettledLine(line) ==
  \A k \in 1 .. (Len(line) - 1) :
    /\ line[k] = 0 => line[k + 1] = 0
    /\ line[k] # 0 => line[k] # line[k + 1]

\* every line of grid B is settled for move o
Settled(B, o) == \A n \in 1 .. BOARD_ROWS : SettledLine(LineOf(B, o, n))

\* C17: a move in a direction along which no line has an empty cell between a
\* tile and the edge, nor two adjacent equal tiles, leaves every cell and the
\* score unchanged, and so does the same move applied again.
C17_SettledMoveIsNoOp ==
  (op \in Moves /\ Settled(gs.board, op)) =>
    /\ res.board = gs.board
    /\ res.score = gs.score
    /\ op = "moveUp" => moveUp(res) = res
    /\ op = "moveDown" => moveDown(res) = res
    /\ op = "moveLeft" => moveLeft(res) = res
    /\ op = "moveRight" => moveRight(res) = res

\* C17 witness: a move was applied to a settled board that holds tiles and
\* empty cells and has a score.
C17_Witness ==
  /\ op \in Moves
  /\ Settled(gs.board, op)
  /\ Tiles(gs) > 1
  /\ CountOf(gs, 0) > 0
  /\ gs.score > 0

\* what moveTile is said to add to the score when it merges two tiles of
\* code n, and what it adds when pow2 is taken as the source computes it
ClaimedGain == [n \in 0 .. 17 |-> 2^(n + 1)]
SupportedGain == [n \in 0 .. 17 |-> IF n <= 16 THEN 2^(n + 1) ELSE 0]

\* One step moveTile(c, a, breakLoop) on cells holding codes in 0 .. 17
\* behaves as follows, a merge of two tiles of code n adding gain[n]: if
\* current is empty or breakLoop is set, both cells and the score are
\* unchanged; otherwise if neighbour is empty, neighbour takes current's code
\* and current becomes 0, score unchanged; otherwise if the codes are equal,
\* neighbour becomes neighbour + 1, current becomes 0 and the score grows by
\* gain[neighbour]; otherwise nothing changes.
MergeStep(gain) ==
  op = "moveTile" =>
    LET current == At(gs, step.c[1], step.c[2])
        neighbor == At(gs, step.a[1], step.a[2])
        current1 == At(res, step.c[1], step.c[2])
        neighbor1 == At(res, step.a[1], step.a[2])
        unchanged == /\ current1 = current /\ neighbor1 = neighbor
                     /\ res.score = gs.score
    IN  IF current = 0 \/ step.breakLoop THEN unchanged
        ELSE IF neighbor = 0
             THEN neighbor1 = current /\ current1 = 0 /\ res.score = gs.score
        ELSE IF current = neighbor
             THEN /\ neighbor1 = neighbor + 1 /\ current1 = 0
                  /\ res.score = gs.score + gain[neighbor]
        ELSE unchanged

\* C24 (as claimed): one merge step behaves as MergeStep describes for every
\* pair of cell codes and every flag value, a merge of two tiles of code n
\* adding 2^(n+1) to the score.
C24_MergeStep == MergeStep(ClaimedGain)

\* C24 (amended): one merge step behaves as MergeStep describes for every
\* pair of cell codes in 0 .. 17 and every flag value, a merge of two tiles
\* of code n adding 2^(n+1) to the score when n <= 16 and nothing when
\* n = 17.
C24_MergeStepBelow17 == MergeStep(SupportedGain)

\* C24 witness: a step that is not suppressed has merged two tiles of code
\* 17 into a tile of code 18.
C24_Witness ==
  /\ op = "moveTile"
  /\ ~step.breakLoop
  /\ At(gs, step.c[1], step.c[2]) = 17
  /\ At(gs, step.a[1], step.a[2]) = 17
  /\ At(res, step.a[1], step.a[2]) = 18

\* C26 (as claimed): the boolean moveTile returns is true exactly when the
\* neighbour cell is non-empty after the step has been applied.
C26_ReturnsNonEmptyAfter ==
  op = "moveTile" => (has <=> At(res, step.a[1], step.a[2]) # 0)

\* C26 (amended): the boolean moveTile returns is true exactly when the
\* neighbour cell was non-empty before the step was applied, for every pair
\* of cell codes and every incoming flag value.
C26_ReturnsNonEmptyBefore ==
  op = "moveTile" => (has <=> At(gs, step.a[1], step.a[2]) # 0)

\* C26 witness: a step that is not suppressed has slid a tile into an empty
\* neighbour and returned false.
C26_Witness ==
  /\ op = "moveTile"
  /\ ~step.breakLoop
  /\ At(gs, step.c[1], step.c[2]) # 0
  /\ At(gs, step.a[1], step.a[2]) = 0
  /\ At(res, step.a[1], step.a[2]) = At(gs, step.c[1], step.c[2])
  /\ ~has

\* no empty cell of the line lies before a tile, the line being read from
\* the edge that tiles move toward
Compact(line) ==
  \A k \in 1 .. (Len(line) - 1) : line[k] = 0 => line[k + 1] = 0

\* C25: after a move in direction d, applied to any board, every line along
\* d is compacted: its non-empty cells are contiguous starting at the edge
\* that tiles move toward.
C25_LinesCompacted ==
  op \in Moves => \A n \in 1 .. BOARD_ROWS : Compact(LineOf(res.board, op, n))

\* C25 witness: a move has brought a tile from the far end of a line, over
\* two empty cells and up against a different tile at the edge.
C25_Witness ==
  /\ op \in Moves
  /\ \E n \in 1 .. BOARD_ROWS :
       /\ LineOf(gs.board, op, n) = << 2, 0, 0, 1 >>
       /\ LineOf(res.board, op, n) = << 2, 1, 0, 0 >>

\* the boards the four moves give from b
MoveResults(b) == { moveUp(b), moveDown(b), moveLeft(b), moveRight(b) }

\* C28: on every board for which hasNextMove is false, all four moves leave
\* every cell and the score unchanged; on every board with at least one tile
\* for which hasNextMove is true, at least one of the four moves changes the
\* board.
C28_DetectorExact ==
  op = "hasNextMove" =>
    LET after == MoveResults(gs)
    IN  /\ ~has => \A m \in after : m.board = gs.board /\ m.score = gs.score
        /\ (has /\ Tiles(gs) >= 1) => \E m \in after : m.board # gs.board

\* C28 witness: hasNextMove has answered false on a full board.
C28_Witness ==
  /\ op = "hasNextMove"
  /\ ~has
  /\ Tiles(gs) = BOARD_ROWS * BOARD_COLS

\* sum over the tiles of b of 2^code
Mass(b) ==
  SumFrom([k \in 1 .. BOARD_ROWS * BOARD_COLS |->
             LET code == At(b, (k - 1) \div BOARD_COLS, (k - 1) % BOARD_COLS)
             IN  IF code = 0 THEN 0 ELSE 2^code], 1)

\* C30: a move conserves tile mass: for every board and every direction the
\* sum over the non-empty cells of 2^code is the same before and after the
\* move, and the number of non-empty cells does not increase.
C30_MassConserved ==
  op \in Moves => (Mass(res) = Mass(gs) /\ Tiles(res) <= Tiles(gs))

\* C30 witness: a move has merged tiles, two of code 17 among them, on a
\* board that holds other tiles too.
C30_Witness ==
  /\ op \in Moves
  /\ Tiles(res) < Tiles(gs)
  /\ CountOf(res, 18) >= 1
  /\ CountOf(res, 2) >= 1

\* bit k of a packed field read as an integer: the bit of weight 2^k
IntBit(field, k) == field[k + 1]

\* The number written by n bits of the integer, the most significant of the
\* group being bit first and the following ones lying dir positions further
\* each (dir = -1: toward the low end of the integer, dir = 1: toward the
\* high end).
RECURSIVE GroupFrom(_, _, _, _, _)
GroupFrom(field, first, dir, n, t) ==
  IF t >= n THEN 0
  ELSE (IF IntBit(field, first + dir * t) THEN 2^(n - 1 - t) ELSE 0)
         + GroupFrom(field, first, dir, n, t + 1)

Group(field, first, dir, n) == GroupFrom(field, first, dir, n, 0)

\* the packed integer is below 2^112
Is112Bits(field) ==
  \A k \in (BOARD_ROWS * BOARD_COLS * NUM_BITS + 32) .. (DECODE_BITS - 1) :
    ~IntBit(field, k)

\* C21 (as claimed): read as an integer, serialize(gs) is 112 bits wide;
\* cell (0,0) is the 5 most significant bits (111 .. 107), the other cells
\* follow in row-major order, bit 31 is ended and bits 30 .. 0 are the score,
\* each group with its most significant bit at the highest position.
C21_MostSignificantFirst ==
  op = "serialize" =>
    /\ Is112Bits(packed)
    /\ \A i \in Rows, j \in Cols :
         Group(packed, 111 - NUM_BITS * (i * BOARD_COLS + j), -1, NUM_BITS)
           = At(gs, i, j)
    /\ IntBit(packed, 31) = gs.ended
    /\ Group(packed, 30, -1, 31) = gs.score

\* C21 (amended): read as an integer, serialize(gs) is 112 bits wide and is
\* laid out from the least significant bit: cell (0,0) is the 5 least
\* significant bits (0 .. 4), the other cells follow in row-major order,
\* bit 80 is ended and bits 81 .. 111, the most significant, are the score;
\* each group has its own most significant bit at its lowest position.
C21_LeastSignificantFirst ==
  op = "serialize" =>
    /\ Is112Bits(packed)
    /\ \A i \in Rows, j \in Cols :
         Group(packed, NUM_BITS * (i * BOARD_COLS + j), 1, NUM_BITS)
           = At(gs, i, j)
    /\ IntBit(packed, BOARD_ROWS * BOARD_COLS * NUM_BITS) = gs.ended
    /\ Group(packed, BOARD_ROWS * BOARD_COLS * NUM_BITS + 1, 1, 31) = gs.score

\* C21 witness: a state with code 1 in cell (0,0), ended true and score 1
\* has been serialized; bit 4 (the lowest bit of cell (0,0)) and bit 111
\* (the lowest bit of the score) of the integer are set.
C21_Witness ==
  /\ op = "serialize"
  /\ At(gs, 0, 0) = 1
  /\ gs.ended
  /\ gs.score = 1
  /\ IntBit(packed, 4)
  /\ IntBit(packed, 111)

\* C22: for every integer p below 2^112 the constructor decodes p (toBits
\* of 113 bits accepts it) and serialize gives p back:
\* serialize(new Board(p)) = p.
C22_DecodeThenSerialize ==
  (op = "decodeField" /\ Is112Bits(packed)) => serialize(res) = packed

\* C22 witness: a field that serialize never produces from a game in play
\* (a cell holds code 31) has been decoded.
C22_Witness ==
  /\ op = "decodeField"
  /\ Is112Bits(packed)
  /\ \E i \in Rows, j \in Cols : At(res, i, j) = 31
  /\ res.score > 2^30

-----------------------------------------------------------------------------
(* Properties of the seed scenario, checked under ScenarioSpec.            *)

\* the grid of codes decoded from a packed board
GridOf(field) == BoardOf(field).board

\* the test case starts with the seven placements of TILE_L
StartsWithTILE_L ==
  /\ Len(commands) >= Len(TILE_L)
  /\ SubSeq(commands, 1, Len(TILE_L)) = TILE_L

\* the test case goes on with n calls of moveUp, and these have been sent
ThenMovedUp(n) ==
  /\ StartsWithTILE_L
  /\ Len(commands) >= Len(TILE_L) + n
  /\ \A k \in 1 .. n : commands[Len(TILE_L) + k] = Move(P1, "moveUp")
  /\ calls = 1 + Len(TILE_L) + n

\* C18: from a freshly started game the seven placements at (0,0), (1,0),
\* (2,0), (3,0), (0,1), (0,2), (0,3) are all accepted and leave the codes
\* [[1,1,1,1],[1,0,0,0],[1,0,0,0],[1,0,0,0]] with gameDone false.
C18_TileL ==
  /\ (StartsWithTILE_L /\ calls \in 2 .. (1 + Len(TILE_L))) => last.accepted
  /\ (StartsWithTILE_L /\ calls = 1 + Len(TILE_L)) =>
       /\ GridOf(board) = << <<1, 1, 1, 1>>, <<1, 0, 0, 0>>, <<1, 0, 0, 0>>, <<1, 0, 0, 0>> >>
       /\ gameDone = FALSE

\* C18 witness: the test case 'Can create new tiles' has sent its last placement.
C18_Witness ==
  /\ commands = TILE_L
  /\ calls = 1 + Len(TILE_L)
  /\ last.call = Place(P1, 0, 3)
  /\ last.accepted

\* C19: from the board of TILE_L one moveUp is accepted and gives
\* [[2,1,1,1],[2,0,0,0],[0,0,0,0],[0,0,0,0]] with gameDone false; a second
\* moveUp is accepted and gives [[3,1,1,1],[0,0,0,0],[0,0,0,0],[0,0,0,0]]
\* with gameDone false.
C19_MoveUpTwice ==
  /\ ThenMovedUp(1) =>
       /\ last.accepted
       /\ GridOf(board) = << <<2, 1, 1, 1>>, <<2, 0, 0, 0>>, <<0, 0, 0, 0>>, <<0, 0, 0, 0>> >>
       /\ gameDone = FALSE
  /\ ThenMovedUp(2) =>
       /\ last.accepted
       /\ GridOf(board) = << <<3, 1, 1, 1>>, <<0, 0, 0, 0>>, <<0, 0, 0, 0>>, <<0, 0, 0, 0>> >>
       /\ gameDone = FALSE

\* C19 witness: the test case 'Move Up X2' has sent its second moveUp.
C19_Witness ==
  /\ ThenMovedUp(2)
  /\ last.call = Move(P1, "moveUp")
  /\ last.accepted

\* C20 (as claimed): the moveUp applied to the board of TILE_L, score 0,
\* raises the score by exactly 2^2 = 4.
C20_MoveUpScoresFour ==
  ThenMovedUp(1) =>
    /\ ScoreOf(last.pre.board) = 0
    /\ ScoreOf(board) - ScoreOf(last.pre.board) = 4

\* C20 (amended): the moveUp applied to the board of TILE_L, score 0, raises
\* the score by exactly 8: column 0 holds four tiles of code 1 and the move
\* merges them in two pairs, each merge adding 2^2 = 4.
C20_MoveUpScoresEight ==
  ThenMovedUp(1) =>
    /\ ScoreOf(last.pre.board) = 0
    /\ ScoreOf(board) - ScoreOf(last.pre.board) = 8

\* C20 witness: the test case 'Move Up' has sent its moveUp, which merged
\* two pairs of tiles.
C20_Witness ==
  /\ ThenMovedUp(1)
  /\ Len(commands) = Len(TILE_L) + 1
  /\ last.accepted
  /\ Tiles(BoardOf(board)) = Tiles(BoardOf(last.pre.board)) - 2

=============================================================================
